---- MODULE Spec2Model ----
(***************************************************************************)
(* The session store of the voice API (src/index.js): the in-memory map    *)
(* `sessions`, the five request handlers that read and mutate it, and the  *)
(* periodic sweeper cleanupOldSessions.                                    *)
(*                                                                         *)
(* A handler runs without interruption from one `await` to the next (one   *)
(* JavaScript event-loop turn), so every action below is one such turn.    *)
(* A handler keeps the session OBJECT it looked up (`const session =       *)
(* sessions.get(...)`) across its awaits, so session objects live in a     *)
(* heap (`objs`) and the map holds addresses.                              *)
(***************************************************************************)
EXTENDS Integers, Sequences, FiniteSets, TLC

\* ------------------------------------------------------------------ bounds
\* A behaviour holds at most MaxRequests requests while the clock is at most
\* ShortTime, and at most FewRequests requests once the clock runs on to MaxTime.
MaxRequests == 4
ShortTime == 1
FewRequests == 3
MaxTime == 8
\* The specification with the wider request inputs holds at most SmallRequests
\* requests, all while the clock is at most ShortTime.
SmallRequests == 3

\* ------------------------------------------------------------- environment
\* A request field that is absent (or falsy: `!x` in the handlers).
NULL == "null"
\* The values uuidv4() can return; two draws may coincide.
SessionIds == {"s1", "s2"}
\* Values a client may send as `gender`.
Genders == {"Male", "Female"}
\* Rows of the two case tables: osce_id -> case_description.
osces == [c \in {"c1"} |-> "descA"]
virtual_patient_simulations == [c \in {"c1", "c2"} |-> IF c = "c1" THEN "descB" ELSE "descC"]
\* Case references a client may send; "cx" is in neither table.
CaseRefs == {"c1", "cx"}
\* Every case reference a client may send: "c2" is in virtual_patient_simulations only.
AnyCaseRefs == CaseRefs \cup {"c2"}
\* The two tables init reads, and which of them may reject its findOne.
Tables == {"osces", "virtual_patient_simulations"}
\* Every value a client may send as `gender`: the documented ones and another.
AnyGenders == Genders \cup {"Other"}
\* const ELEVENLABS_VOICES = { Male: ..., Female: ... }
ELEVENLABS_VOICES == [g \in {"Male", "Female"} |-> "voice:" \o g]
\* What the speech-to-text and chat services may answer.
Transcriptions == {"q1", "q2"}
Completions == {"a1", "a2"}

\* Clock resolution: one clock unit is this many milliseconds (Date.now() and
\* the two durations of the sweeper are counted in these units).
TickMs == 300 * 1000
maxAge == (30 * 60 * 1000) \div TickMs
SweepInterval == (5 * 60 * 1000) \div TickMs

initialGreeting == "Hello Doctor, I'm here for my appointment."

\* Heap addresses of session objects (every object is made by one request).
Addrs == 1..MaxRequests
NoObj == [free |-> TRUE]

VARIABLES
  sessions,   \* the Map: session id -> address of its session object, 0 = no entry
  objs,       \* heap: address -> session object, or NoObj
  inflight,   \* requests suspended at an await: request number -> its locals
  now,        \* Date.now(), in clock units
  nextSweep,  \* when the setInterval timer fires next
  nreq,       \* requests received so far
  last,       \* what the step just taken did (request, response, external call)
  stopped,    \* history: per id, whether a stop on it has succeeded, and whether
              \* an initialize has stored a session under it again since
  swept,      \* history: the same for a removal by the sweeper
  transcribing \* one call of transcribeAudio: its argument, its locals, its outcome

vars == <<sessions, objs, inflight, now, nextSweep, nreq, last, stopped, swept, transcribing>>

\* ------------------------------------------------------------------ helpers
\* The bounded region of (requests received, clock).
WithinBounds(n, t) ==
  \/ n <= MaxRequests /\ t <= ShortTime
  \/ n <= FewRequests /\ t <= MaxTime

Range(f) == {f[x] : x \in DOMAIN f}

\* A transcript entry {role, content}. `by` is history only: the number of the
\* request whose handler pushed it (0: the system turn written by init).
Turn(role, content, by) == [role |-> role, content |-> content, by |-> by]

getPatientPrompt(caseDescription) == "prompt:" \o caseDescription

\* Objects no map entry and no suspended handler refers to are unreachable.
Collect(o, s, f) ==
  [a \in Addrs |-> IF a \in Range(s) \/ (\E r \in DOMAIN f : f[r].obj = a)
                   THEN o[a] ELSE NoObj]

FreeAddr == CHOOSE a \in Addrs : objs[a] = NoObj /\ \A b \in Addrs : objs[b] = NoObj => a <= b

\* sessions.get(session_id)
Has(sid) == sid \in SessionIds /\ sessions[sid] # 0
Get(sid) == objs[sessions[sid]]

\* What one step did. first: the handler's first turn (the request arrives);
\* status 0 / kind "pending": the handler is suspended at the await of `call`.
\* stage: the await the handler resumed from. len0: the transcript length when
\* the request was accepted; conv: the transcript of its session object now;
\* transcription, aiResponse: the handler's locals. text, reply, items: the
\* response body. deleted: the ids a sweep removed. gender, osce_id: the body of
\* an initialize request; file: whether a process request carries its audio.
\* messages: the argument of the getChatCompletion call the step issued.
Ev(op, rid, first, sid, status, kind, call) ==
  [op |-> op, rid |-> rid, first |-> first, sid |-> sid, file |-> TRUE,
   gender |-> NULL, osce_id |-> NULL,
   status |-> status, kind |-> kind, call |-> call, stage |-> "none",
   text |-> "", reply |-> "", items |-> << >>, len0 |-> 0, conv |-> << >>,
   transcription |-> "", aiResponse |-> "", deleted |-> {}, messages |-> << >>]

\* Mutant: a request on a session that is not active is answered 409.
Event_NotActive409(op, sid, status, kind, call) ==
  Ev(op, nreq + 1, TRUE, sid, IF kind = "notactive" THEN 409 ELSE status, kind, call)

Event(op, sid, status, kind, call) == Ev(op, nreq + 1, TRUE, sid, status, kind, call)

Resume(r, status, kind, call, conv) ==
  [Ev(inflight[r].op, r, FALSE, inflight[r].sid, status, kind, call)
     EXCEPT !.stage = inflight[r].pc, !.len0 = inflight[r].len0, !.conv = conv,
            !.transcription = inflight[r].transcription,
            !.aiResponse = inflight[r].aiResponse]

\* The locals of a handler suspended at an await.
Suspended(op, sid, a, pc) ==
  [op |-> op, sid |-> sid, obj |-> a, pc |-> pc, transcription |-> "",
   aiResponse |-> "", len0 |-> Len(objs[a].conversationHistory)]

\* Mutant: a handler that has answered stays suspended and can answer again.
Drop_Kept(r) == inflight

Drop(r) == [x \in DOMAIN inflight \ {r} |-> inflight[x]]

\* -------------------------------------------------------------------- Init
\* No call of transcribeAudio is being followed.
NoCall == [idx |-> 0]

Init ==
  /\ sessions = [s \in SessionIds |-> 0]
  /\ objs = [a \in Addrs |-> NoObj]
  /\ inflight = << >>
  /\ now = 0
  /\ nextSweep = SweepInterval
  /\ nreq = 0
  /\ last = Ev("boot", 0, FALSE, NULL, 0, "none", "none")
  /\ stopped = [s \in SessionIds |-> "never"]
  /\ swept = [s \in SessionIds |-> "never"]
  /\ transcribing = NoCall

\* ------------------------------------------------------- POST /api/voice/init
\* Mutant: a case in neither table falls back to the first row of osces.
resolveCase_Fallback(osce_id) ==
  IF osce_id \in DOMAIN osces THEN osces[osce_id]
  ELSE IF osce_id \in DOMAIN virtual_patient_simulations
       THEN virtual_patient_simulations[osce_id]
       ELSE osces["c1"]

\* Mutant: virtual_patient_simulations is read first, osces if it has no row.
resolveCase_VpsFirst(osce_id) ==
  IF osce_id \in DOMAIN virtual_patient_simulations
  THEN virtual_patient_simulations[osce_id]
  ELSE IF osce_id \in DOMAIN osces THEN osces[osce_id]
       ELSE NULL

\* db.osces.findOne, then db.virtual_patient_simulations.findOne if no row.
resolveCase(osce_id) ==
  IF osce_id \in DOMAIN osces THEN osces[osce_id]
  ELSE IF osce_id \in DOMAIN virtual_patient_simulations
       THEN virtual_patient_simulations[osce_id]
       ELSE NULL

\* Mutant: both tables are read for every case reference.
consulted_Both(osce_id) == Tables

\* The tables findOne is called on: osces always, virtual_patient_simulations
\* `if (!osceExists)`.
consulted(osce_id) ==
  IF osce_id \in DOMAIN osces THEN {"osces"} ELSE Tables

\* Mutant: the session is stored with an empty transcript.
NewSession_NoSystemTurn(gender, osce_id, t) ==
  [gender |-> gender,
   osce_id |-> osce_id,
   conversationHistory |-> << >>,
   active |-> FALSE,
   lastActivity |-> t]

NewSession(gender, osce_id, t) ==
  [gender |-> gender,
   osce_id |-> osce_id,
   conversationHistory |-> << Turn("system", getPatientPrompt(resolveCase(osce_id)), 0) >>,
   active |-> FALSE,
   lastActivity |-> t]

\* sessions.set(sessionId, ...)
Set(s, sessionId, a) == [s EXCEPT ![sessionId] = a]

\* The handler's awaits are the two table lookups; it touches `sessions` only
\* in its last turn, which is the step modelled here. dbThrows: the table whose
\* findOne rejects, or NULL.
\* sessionId: what uuidv4() returns.
VoiceInit(gender, osce_id, dbThrows, sessionId) ==
  /\ WithinBounds(nreq + 1, now)
  /\ nreq' = nreq + 1
  /\ UNCHANGED <<inflight, now, nextSweep, transcribing>>
  /\ LET Answer(sid, status, kind) ==
           [Event("init", sid, status, kind, "none")
              EXCEPT !.gender = gender, !.osce_id = osce_id]
     IN IF gender = NULL \/ osce_id = NULL
        THEN /\ last' = Answer(NULL, 400, "missing")
             /\ UNCHANGED <<sessions, objs, stopped, swept>>
        ELSE IF dbThrows \in consulted(osce_id)
        THEN /\ last' = Answer(NULL, 500, "upstream")
             /\ UNCHANGED <<sessions, objs, stopped, swept>>
        ELSE IF resolveCase(osce_id) = NULL
        THEN /\ last' = Answer(NULL, 404, "notfound")
             /\ UNCHANGED <<sessions, objs, stopped, swept>>
        ELSE LET a == FreeAddr
                 s == Set(sessions, sessionId, a)
             IN /\ sessions' = s
                /\ objs' = Collect([objs EXCEPT ![a] = NewSession(gender, osce_id, now)],
                                   s, inflight)
                /\ last' = Answer(sessionId, 200, "ok")
                /\ stopped' = [stopped EXCEPT ![sessionId] =
                                 IF @ = "never" THEN "never" ELSE "reissued"]
                /\ swept' = [swept EXCEPT ![sessionId] =
                               IF @ = "never" THEN "never" ELSE "reissued"]

\* ----------------------------------------------------- POST /api/voice/start
\* Mutant: the greeting is not pushed.
StartSession_NoGreeting(session, t, by) ==
  [session EXCEPT !.active = TRUE, !.lastActivity = t]

\* Mutant: start also overwrites the session's gender.
StartSession_ResetsGender(session, t, by) ==
  [session EXCEPT !.active = TRUE,
                  !.lastActivity = t,
                  !.gender = "Male",
                  !.conversationHistory = Append(@, Turn("assistant", initialGreeting, by))]

\* session.active = true; session.lastActivity = Date.now(); push the greeting.
StartSession(session, t, by) ==
  [session EXCEPT !.active = TRUE,
                  !.lastActivity = t,
                  !.conversationHistory = Append(@, Turn("assistant", initialGreeting, by))]

\* Up to `await generateSpeech(...)`.
VoiceStart(session_id) ==
  /\ WithinBounds(nreq + 1, now)
  /\ nreq' = nreq + 1
  /\ UNCHANGED <<sessions, now, nextSweep, stopped, swept, transcribing>>
  /\ IF session_id = NULL
     THEN /\ last' = Event("start", session_id, 400, "missing", "none")
          /\ UNCHANGED <<objs, inflight>>
     ELSE IF ~Has(session_id)
     THEN /\ last' = Event("start", session_id, 404, "notfound", "none")
          /\ UNCHANGED <<objs, inflight>>
     ELSE LET a == sessions[session_id]
          IN /\ objs' = [objs EXCEPT ![a] = StartSession(@, now, nreq + 1)]
             /\ inflight' = inflight @@ ((nreq + 1) :> Suspended("start", session_id, a, "speech"))
             /\ last' = Event("start", session_id, 0, "pending", "speech")

\* Mutant: when generateSpeech throws, start is undone: the greeting is taken
\* back and the session is not active.
StartSpeechDone_RollsBack(r, ok) ==
  /\ r \in DOMAIN inflight
  /\ inflight[r].op = "start"
  /\ inflight[r].pc = "speech"
  /\ inflight' = Drop(r)
  /\ LET a == inflight[r].obj
         o == [objs[a] EXCEPT !.active = FALSE,
                              !.conversationHistory = SubSeq(@, 1, Len(@) - 1)]
     IN IF ok
        THEN /\ objs' = Collect(objs, sessions, Drop(r))
             /\ last' = [Resume(r, 200, "ok", "none", objs[a].conversationHistory)
                           EXCEPT !.text = initialGreeting]
        ELSE /\ objs' = Collect([objs EXCEPT ![a] = o], sessions, Drop(r))
             /\ last' = Resume(r, 500, "upstream", "none", o.conversationHistory)
  /\ UNCHANGED <<sessions, now, nextSweep, nreq, stopped, swept, transcribing>>

\* generateSpeech resolves (ok) or throws; the handler answers.
StartSpeechDone(r, ok) ==
  /\ r \in DOMAIN inflight
  /\ inflight[r].op = "start"
  /\ inflight[r].pc = "speech"
  /\ inflight' = Drop(r)
  /\ objs' = Collect(objs, sessions, Drop(r))
  /\ last' = LET conv == objs[inflight[r].obj].conversationHistory
             IN IF ok
                THEN [Resume(r, 200, "ok", "none", conv) EXCEPT !.text = initialGreeting]
                ELSE Resume(r, 500, "upstream", "none", conv)
  /\ UNCHANGED <<sessions, now, nextSweep, nreq, stopped, swept, transcribing>>

\* --------------------------------------------------- POST /api/voice/process
\* Mutant: the active check is dropped.
NotActive_Ignored(session) == FALSE

\* if (!session.active) return res.status(400)
NotActive(session) == ~session.active

\* Mutant: refreshing the activity time also clears the active flag.
Touch_Deactivates(session, t) == [session EXCEPT !.lastActivity = t, !.active = FALSE]

\* Mutant: the activity time is not refreshed.
Touch_Skipped(session, t) == session

\* session.lastActivity = Date.now()
Touch(session, t) == [session EXCEPT !.lastActivity = t]

\* Mutant: every turn is pushed with role assistant.
Push_WrongRole(session, role, content, by) ==
  [session EXCEPT !.conversationHistory = Append(@, Turn("assistant", content, by))]

\* Mutant: the turn is put in front of the transcript (unshift for push).
Push_Prepend(session, role, content, by) ==
  [session EXCEPT !.conversationHistory = << Turn(role, content, by) >> \o @]

\* session.conversationHistory.push({role, content})
Push(session, role, content, by) ==
  [session EXCEPT !.conversationHistory = Append(@, Turn(role, content, by))]

\* Mutant: the session is looked up before the request fields are checked.
VoiceProcess_LookupFirst(session_id, hasFile) ==
  /\ WithinBounds(nreq + 1, now)
  /\ nreq' = nreq + 1
  /\ UNCHANGED <<sessions, now, nextSweep, stopped, swept, transcribing>>
  /\ IF ~Has(session_id)
     THEN /\ last' = [Event("process", session_id, 404, "notfound", "none")
                        EXCEPT !.file = hasFile]
          /\ UNCHANGED <<objs, inflight>>
     ELSE IF ~hasFile
     THEN /\ last' = [Event("process", session_id, 400, "missing", "none")
                        EXCEPT !.file = hasFile]
          /\ UNCHANGED <<objs, inflight>>
     ELSE IF NotActive(Get(session_id))
     THEN /\ last' = Event("process", session_id, 400, "notactive", "none")
          /\ UNCHANGED <<objs, inflight>>
     ELSE LET a == sessions[session_id]
          IN /\ objs' = [objs EXCEPT ![a] = Touch(@, now)]
             /\ inflight' = inflight @@
                  ((nreq + 1) :> Suspended("process", session_id, a, "transcribe"))
             /\ last' = Event("process", session_id, 0, "pending", "transcribe")

\* Up to `await transcribeAudio(...)`.
VoiceProcess(session_id, hasFile) ==
  /\ WithinBounds(nreq + 1, now)
  /\ nreq' = nreq + 1
  /\ UNCHANGED <<sessions, now, nextSweep, stopped, swept, transcribing>>
  /\ IF session_id = NULL \/ ~hasFile
     THEN /\ last' = [Event("process", session_id, 400, "missing", "none")
                        EXCEPT !.file = hasFile]
          /\ UNCHANGED <<objs, inflight>>
     ELSE IF ~Has(session_id)
     THEN /\ last' = Event("process", session_id, 404, "notfound", "none")
          /\ UNCHANGED <<objs, inflight>>
     ELSE IF NotActive(Get(session_id))
     THEN /\ last' = Event("process", session_id, 400, "notactive", "none")
          /\ UNCHANGED <<objs, inflight>>
     ELSE LET a == sessions[session_id]
          IN /\ objs' = [objs EXCEPT ![a] = Touch(@, now)]
             /\ inflight' = inflight @@
                  ((nreq + 1) :> Suspended("process", session_id, a, "transcribe"))
             /\ last' = Event("process", session_id, 0, "pending", "transcribe")

\* Mutant: when transcribeAudio throws, the handler calls it again.
ProcessTranscribed_Retries(r, transcription) ==
  /\ r \in DOMAIN inflight
  /\ inflight[r].op = "process"
  /\ inflight[r].pc = "transcribe"
  /\ UNCHANGED <<sessions, now, nextSweep, nreq, stopped, swept, transcribing>>
  /\ IF transcription = NULL
     THEN /\ UNCHANGED <<inflight, objs>>
          /\ last' = Resume(r, 0, "pending", "transcribe",
                            objs[inflight[r].obj].conversationHistory)
     ELSE LET o == Push(objs[inflight[r].obj], "user", transcription, r)
          IN /\ objs' = [objs EXCEPT ![inflight[r].obj] = o]
             /\ inflight' = [inflight EXCEPT ![r].pc = "chat",
                                             ![r].transcription = transcription]
             /\ last' = [Resume(r, 0, "pending", "chat", o.conversationHistory)
                           EXCEPT !.transcription = transcription,
                                  !.messages = o.conversationHistory]

\* transcribeAudio resolves with a text or throws (NULL); on a text the handler
\* pushes the user turn and runs up to `await getChatCompletion(...)`.
ProcessTranscribed(r, transcription) ==
  /\ r \in DOMAIN inflight
  /\ inflight[r].op = "process"
  /\ inflight[r].pc = "transcribe"
  /\ UNCHANGED <<sessions, now, nextSweep, nreq, stopped, swept, transcribing>>
  /\ IF transcription = NULL
     THEN /\ inflight' = Drop(r)
          /\ objs' = Collect(objs, sessions, Drop(r))
          /\ last' = Resume(r, 500, "upstream", "none",
                            objs[inflight[r].obj].conversationHistory)
     ELSE LET o == Push(objs[inflight[r].obj], "user", transcription, r)
          IN /\ objs' = [objs EXCEPT ![inflight[r].obj] = o]
             /\ inflight' = [inflight EXCEPT ![r].pc = "chat",
                                             ![r].transcription = transcription]
             /\ last' = [Resume(r, 0, "pending", "chat", o.conversationHistory)
                           EXCEPT !.transcription = transcription,
                                  !.messages = o.conversationHistory]

\* Mutant: when getChatCompletion throws, the user turn is taken back (pop).
ProcessCompleted_RollsBack(r, aiResponse) ==
  /\ r \in DOMAIN inflight
  /\ inflight[r].op = "process"
  /\ inflight[r].pc = "chat"
  /\ UNCHANGED <<sessions, now, nextSweep, nreq, stopped, swept, transcribing>>
  /\ IF aiResponse = NULL
     THEN LET o == [objs[inflight[r].obj] EXCEPT
                      !.conversationHistory = SubSeq(@, 1, Len(@) - 1)]
          IN /\ inflight' = Drop(r)
             /\ objs' = Collect([objs EXCEPT ![inflight[r].obj] = o], sessions, Drop(r))
             /\ last' = Resume(r, 500, "upstream", "none", o.conversationHistory)
     ELSE LET o == Push(objs[inflight[r].obj], "assistant", aiResponse, r)
          IN /\ objs' = [objs EXCEPT ![inflight[r].obj] = o]
             /\ inflight' = [inflight EXCEPT ![r].pc = "speech",
                                             ![r].aiResponse = aiResponse]
             /\ last' = [Resume(r, 0, "pending", "speech", o.conversationHistory)
                           EXCEPT !.aiResponse = aiResponse]

\* getChatCompletion resolves with a text or throws (NULL); on a text the handler
\* pushes the assistant turn and runs up to `await generateSpeech(...)`.
ProcessCompleted(r, aiResponse) ==
  /\ r \in DOMAIN inflight
  /\ inflight[r].op = "process"
  /\ inflight[r].pc = "chat"
  /\ UNCHANGED <<sessions, now, nextSweep, nreq, stopped, swept, transcribing>>
  /\ IF aiResponse = NULL
     THEN /\ inflight' = Drop(r)
          /\ objs' = Collect(objs, sessions, Drop(r))
          /\ last' = Resume(r, 500, "upstream", "none",
                            objs[inflight[r].obj].conversationHistory)
     ELSE LET o == Push(objs[inflight[r].obj], "assistant", aiResponse, r)
          IN /\ objs' = [objs EXCEPT ![inflight[r].obj] = o]
             /\ inflight' = [inflight EXCEPT ![r].pc = "speech",
                                             ![r].aiResponse = aiResponse]
             /\ last' = [Resume(r, 0, "pending", "speech", o.conversationHistory)
                           EXCEPT !.aiResponse = aiResponse]

\* Mutant: after the await the handler looks the session up again and answers
\* 404 when it is gone.
ProcessSpeechDone_Gone404(r, ok) ==
  /\ r \in DOMAIN inflight
  /\ inflight[r].op = "process"
  /\ inflight[r].pc = "speech"
  /\ inflight' = Drop(r)
  /\ objs' = Collect(objs, sessions, Drop(r))
  /\ last' = LET conv == objs[inflight[r].obj].conversationHistory
             IN IF sessions[inflight[r].sid] # inflight[r].obj
                THEN Resume(r, 404, "notfound", "none", conv)
                ELSE IF ok
                THEN [Resume(r, 200, "ok", "none", conv)
                        EXCEPT !.text = inflight[r].transcription,
                               !.reply = inflight[r].aiResponse]
                ELSE Resume(r, 500, "upstream", "none", conv)
  /\ UNCHANGED <<sessions, now, nextSweep, nreq, stopped, swept, transcribing>>

\* Mutant: the response carries the two texts the wrong way round.
ProcessSpeechDone_Swapped(r, ok) ==
  /\ r \in DOMAIN inflight
  /\ inflight[r].op = "process"
  /\ inflight[r].pc = "speech"
  /\ inflight' = Drop(r)
  /\ objs' = Collect(objs, sessions, Drop(r))
  /\ last' = LET conv == objs[inflight[r].obj].conversationHistory
             IN IF ok
                THEN [Resume(r, 200, "ok", "none", conv)
                        EXCEPT !.text = inflight[r].aiResponse,
                               !.reply = inflight[r].transcription]
                ELSE Resume(r, 500, "upstream", "none", conv)
  /\ UNCHANGED <<sessions, now, nextSweep, nreq, stopped, swept, transcribing>>

\* generateSpeech resolves (ok) or throws; the handler answers.
ProcessSpeechDone(r, ok) ==
  /\ r \in DOMAIN inflight
  /\ inflight[r].op = "process"
  /\ inflight[r].pc = "speech"
  /\ inflight' = Drop(r)
  /\ objs' = Collect(objs, sessions, Drop(r))
  /\ last' = LET conv == objs[inflight[r].obj].conversationHistory
             IN IF ok
                THEN [Resume(r, 200, "ok", "none", conv)
                        EXCEPT !.text = inflight[r].transcription,
                               !.reply = inflight[r].aiResponse]
                ELSE Resume(r, 500, "upstream", "none", conv)
  /\ UNCHANGED <<sessions, now, nextSweep, nreq, stopped, swept, transcribing>>

\* ------------------------------------------------------ POST /api/voice/stop
\* Mutant: the entry is not removed.
Delete_Forgotten(s, session_id) == s

\* Mutant: the whole map is cleared (sessions.clear() for sessions.delete(id)).
Delete_All(s, session_id) == [x \in DOMAIN s |-> 0]

\* sessions.delete(session_id)
Delete(s, session_id) == [s EXCEPT ![session_id] = 0]

VoiceStop(session_id) ==
  /\ WithinBounds(nreq + 1, now)
  /\ nreq' = nreq + 1
  /\ UNCHANGED <<inflight, now, nextSweep, swept, transcribing>>
  /\ IF session_id = NULL
     THEN /\ last' = Event("stop", session_id, 400, "missing", "none")
          /\ UNCHANGED <<sessions, objs, stopped>>
     ELSE IF ~Has(session_id)
     THEN /\ last' = Event("stop", session_id, 404, "notfound", "none")
          /\ UNCHANGED <<sessions, objs, stopped>>
     ELSE LET s == Delete(sessions, session_id)
          IN /\ sessions' = s
             /\ objs' = Collect(objs, s, inflight)
             /\ last' = Event("stop", session_id, 200, "ok", "none")
             /\ stopped' = [stopped EXCEPT ![session_id] = "stopped"]

\* --------------------------------------------------- POST /api/voice/history
\* Mutant: the filter is left out.
HistoryOf_Unfiltered(conversationHistory) ==
  [i \in 1..Len(conversationHistory) |->
     [role |-> conversationHistory[i].role, content |-> conversationHistory[i].content]]

\* .filter(msg => msg.role !== "system").map(msg => ({role, content}))
HistoryOf(conversationHistory) ==
  LET keep == SelectSeq(conversationHistory, LAMBDA msg : msg.role # "system")
  IN [i \in 1..Len(keep) |-> [role |-> keep[i].role, content |-> keep[i].content]]

\* Mutant: a served history request refreshes the session's activity time.
VoiceHistory_Touches(session_id) ==
  /\ WithinBounds(nreq + 1, now)
  /\ nreq' = nreq + 1
  /\ UNCHANGED <<sessions, inflight, now, nextSweep, stopped, swept, transcribing>>
  /\ IF session_id = NULL
     THEN /\ last' = Event("history", session_id, 400, "missing", "none")
          /\ UNCHANGED objs
     ELSE IF ~Has(session_id)
     THEN /\ last' = Event("history", session_id, 404, "notfound", "none")
          /\ UNCHANGED objs
     ELSE /\ last' = [Event("history", session_id, 200, "ok", "none")
                        EXCEPT !.items = HistoryOf(Get(session_id).conversationHistory)]
          /\ objs' = [objs EXCEPT ![sessions[session_id]] = Touch(@, now)]

VoiceHistory(session_id) ==
  /\ WithinBounds(nreq + 1, now)
  /\ nreq' = nreq + 1
  /\ UNCHANGED <<sessions, objs, inflight, now, nextSweep, stopped, swept, transcribing>>
  /\ IF session_id = NULL
     THEN last' = Event("history", session_id, 400, "missing", "none")
     ELSE IF ~Has(session_id)
     THEN last' = Event("history", session_id, 404, "notfound", "none")
     ELSE last' = [Event("history", session_id, 200, "ok", "none")
                     EXCEPT !.items = HistoryOf(Get(session_id).conversationHistory)]

\* ------------------------------------------------------- cleanupOldSessions
\* Mutant: the subtraction is the wrong way round.
Expired_Reversed(session, t) == session.lastActivity - t > maxAge

\* Mutant: the comparison is not strict.
Expired_NotStrict(session, t) == t - session.lastActivity >= maxAge

\* now - session.lastActivity > maxAge
Expired(session, t) == t - session.lastActivity > maxAge

\* Mutant: an expired session is logged as cleaned up but not deleted.
cleanupOldSessions_LogsOnly ==
  /\ now = nextSweep
  /\ nextSweep' = now + SweepInterval
  /\ LET gone == {sid \in SessionIds : sessions[sid] # 0 /\ Expired(objs[sessions[sid]], now)}
     IN /\ last' = [Ev("sweep", 0, FALSE, NULL, 0, "none", "none") EXCEPT !.deleted = gone]
        /\ swept' = [sid \in SessionIds |-> IF sid \in gone THEN "swept" ELSE swept[sid]]
  /\ UNCHANGED <<sessions, objs, inflight, now, nreq, stopped, transcribing>>

\* Runs when the setInterval timer is due.
cleanupOldSessions ==
  /\ now = nextSweep
  /\ nextSweep' = now + SweepInterval
  /\ LET s == [sid \in SessionIds |->
                 IF sessions[sid] # 0 /\ Expired(objs[sessions[sid]], now)
                 THEN 0 ELSE sessions[sid]]
     IN /\ sessions' = s
        /\ objs' = Collect(objs, s, inflight)
        /\ last' = [Ev("sweep", 0, FALSE, NULL, 0, "none", "none")
                      EXCEPT !.deleted = {sid \in SessionIds : sessions[sid] # 0 /\ s[sid] = 0}]
        /\ swept' = [sid \in SessionIds |->
                       IF sessions[sid] # 0 /\ s[sid] = 0 THEN "swept" ELSE swept[sid]]
  /\ UNCHANGED <<inflight, now, nreq, stopped, transcribing>>

\* Time passes; the interval timer fires before time passes its due instant.
Tick ==
  /\ WithinBounds(nreq, now + 1)
  /\ now < nextSweep
  /\ now' = now + 1
  /\ last' = Ev("tick", 0, FALSE, NULL, 0, "none", "none")
  /\ UNCHANGED <<sessions, objs, inflight, nextSweep, nreq, stopped, swept, transcribing>>

Next ==
  \/ \E g \in Genders \cup {NULL}, c \in CaseRefs \cup {NULL} :
       \E t \in (IF g = NULL \/ c = NULL THEN {NULL} ELSE Tables \cup {NULL}) :
         \E id \in (IF g = NULL \/ c = NULL \/ t \in consulted(c) \/ resolveCase(c) = NULL
                    THEN {CHOOSE x \in SessionIds : TRUE} ELSE SessionIds) :
           VoiceInit(g, c, t, id)
  \/ \E sid \in SessionIds \cup {NULL} : VoiceStart(sid)
  \/ \E r \in Addrs, ok \in BOOLEAN : StartSpeechDone(r, ok)
  \/ \E sid \in SessionIds \cup {NULL} :
       \E f \in (IF sid = NULL THEN {TRUE} ELSE BOOLEAN) : VoiceProcess(sid, f)
  \/ \E r \in Addrs, t \in Transcriptions \cup {NULL} : ProcessTranscribed(r, t)
  \/ \E r \in Addrs, a \in Completions \cup {NULL} : ProcessCompleted(r, a)
  \/ \E r \in Addrs, ok \in BOOLEAN : ProcessSpeechDone(r, ok)
  \/ \E sid \in SessionIds \cup {NULL} : VoiceStop(sid)
  \/ \E sid \in SessionIds \cup {NULL} : VoiceHistory(sid)
  \/ cleanupOldSessions
  \/ Tick

Spec == Init /\ [][Next]_vars

\* ------------------------------------- the server with one request per session
\* No handler is suspended on a request addressed to sid: the client sends its
\* next request on a session after the answer to the last one.
Quiet(sid) == \A r \in DOMAIN inflight : inflight[r].sid # sid

\* The same handlers, when the requests on one session do not overlap.
NextSerial ==
  \/ \E g \in Genders \cup {NULL}, c \in CaseRefs \cup {NULL} :
       \E t \in (IF g = NULL \/ c = NULL THEN {NULL} ELSE Tables \cup {NULL}) :
         \E id \in (IF g = NULL \/ c = NULL \/ t \in consulted(c) \/ resolveCase(c) = NULL
                    THEN {CHOOSE x \in SessionIds : TRUE} ELSE SessionIds) :
           VoiceInit(g, c, t, id)
  \/ \E sid \in SessionIds \cup {NULL} : Quiet(sid) /\ VoiceStart(sid)
  \/ \E r \in Addrs, ok \in BOOLEAN : StartSpeechDone(r, ok)
  \/ \E sid \in SessionIds \cup {NULL} :
       \E f \in (IF sid = NULL THEN {TRUE} ELSE BOOLEAN) : Quiet(sid) /\ VoiceProcess(sid, f)
  \/ \E r \in Addrs, t \in Transcriptions \cup {NULL} : ProcessTranscribed(r, t)
  \/ \E r \in Addrs, a \in Completions \cup {NULL} : ProcessCompleted(r, a)
  \/ \E r \in Addrs, ok \in BOOLEAN : ProcessSpeechDone(r, ok)
  \/ \E sid \in SessionIds \cup {NULL} : Quiet(sid) /\ VoiceStop(sid)
  \/ \E sid \in SessionIds \cup {NULL} : Quiet(sid) /\ VoiceHistory(sid)
  \/ cleanupOldSessions
  \/ Tick

SerialSpec == Init /\ [][NextSerial]_vars

\* ------------------------------------------- the server under any gender sent
\* The same handlers, with every gender value and every case reference a
\* client may send, over SmallRequests requests.
NextAny ==
  \/ /\ nreq < SmallRequests
     /\ \E g \in AnyGenders \cup {NULL}, c \in AnyCaseRefs \cup {NULL} :
          \E t \in (IF g = NULL \/ c = NULL THEN {NULL} ELSE Tables \cup {NULL}) :
            \E id \in (IF g = NULL \/ c = NULL \/ t \in consulted(c) \/ resolveCase(c) = NULL
                       THEN {CHOOSE x \in SessionIds : TRUE} ELSE SessionIds) :
              VoiceInit(g, c, t, id)
  \/ nreq < SmallRequests /\ \E sid \in SessionIds \cup {NULL} : VoiceStart(sid)
  \/ \E r \in Addrs, ok \in BOOLEAN : StartSpeechDone(r, ok)
  \/ /\ nreq < SmallRequests
     /\ \E sid \in SessionIds \cup {NULL} :
          \E f \in (IF sid = NULL THEN {TRUE} ELSE BOOLEAN) : VoiceProcess(sid, f)
  \/ \E r \in Addrs, t \in Transcriptions \cup {NULL} : ProcessTranscribed(r, t)
  \/ \E r \in Addrs, a \in Completions \cup {NULL} : ProcessCompleted(r, a)
  \/ \E r \in Addrs, ok \in BOOLEAN : ProcessSpeechDone(r, ok)
  \/ nreq < SmallRequests /\ \E sid \in SessionIds \cup {NULL} : VoiceStop(sid)
  \/ nreq < SmallRequests /\ \E sid \in SessionIds \cup {NULL} : VoiceHistory(sid)
  \/ cleanupOldSessions
  \/ now < ShortTime /\ Tick

\* The external call request r is suspended at returns or throws.
Returns(r) ==
  \/ \E ok \in BOOLEAN : StartSpeechDone(r, ok)
  \/ \E t \in Transcriptions \cup {NULL} : ProcessTranscribed(r, t)
  \/ \E a \in Completions \cup {NULL} : ProcessCompleted(r, a)
  \/ \E ok \in BOOLEAN : ProcessSpeechDone(r, ok)

\* Every external call a handler awaits eventually returns or throws, and the
\* event loop then runs the handler's continuation.
SmallSpec == Init /\ [][NextAny]_vars /\ \A r \in Addrs : WF_vars(Returns(r))

\* ------------------------------------------------------------ transcribeAudio
\* const supportedFormats = ['webm', 'wav', 'mp3', 'mp4', 'm4a']
supportedFormats == << "webm", "wav", "mp3", "mp4", "m4a" >>

\* path.join(__dirname, `../temp_audio_${audioId}.${format}`)
tempFilePath(format) == "temp_audio." \o format

\* A call transcribeAudio(audioBuffer) at the head of its loop. audio: what the
\* transcription service answers for this buffer sent as each format, a text
\* or NULL when it rejects. idx: the loop's position in supportedFormats.
\* awaiting: the call is suspended at `await ...transcriptions.create`. files:
\* the temp files on disk. attempts: the formats sent to the service so far.
\* outcome, text: how the call ended, and the text it returned.
Call(audio) ==
  [idx |-> 1, audio |-> audio, awaiting |-> FALSE, files |-> {}, attempts |-> << >>,
   outcome |-> "running", text |-> NULL]

\* The state after construction with one call of transcribeAudio entered, on
\* any audio buffer.
InitTranscribe ==
  /\ sessions = [s \in SessionIds |-> 0]
  /\ objs = [a \in Addrs |-> NoObj]
  /\ inflight = << >>
  /\ now = 0
  /\ nextSweep = SweepInterval
  /\ nreq = 0
  /\ last = Ev("boot", 0, FALSE, NULL, 0, "none", "none")
  /\ stopped = [s \in SessionIds |-> "never"]
  /\ swept = [s \in SessionIds |-> "never"]
  /\ transcribing \in {Call(audio) :
                         audio \in [Range(supportedFormats) -> Transcriptions \cup {NULL}]}

\* One iteration up to its await: write the temp file, send it to the service.
TryFormat ==
  /\ transcribing.idx # 0
  /\ transcribing.outcome = "running"
  /\ ~transcribing.awaiting
  /\ LET format == supportedFormats[transcribing.idx]
     IN transcribing' = [transcribing EXCEPT
                           !.files = @ \cup {tempFilePath(format)},
                           !.attempts = Append(@, format),
                           !.awaiting = TRUE]
  /\ UNCHANGED <<sessions, objs, inflight, now, nextSweep, nreq, last, stopped, swept>>

\* Mutant: the first rejection ends the call.
FormatAnswered_GivesUp ==
  /\ transcribing.idx # 0
  /\ transcribing.awaiting
  /\ LET format == supportedFormats[transcribing.idx]
         answer == transcribing.audio[format]
     IN IF answer # NULL
        THEN transcribing' = [transcribing EXCEPT
                                !.files = @ \ {tempFilePath(format)},
                                !.awaiting = FALSE,
                                !.outcome = "returned", !.text = answer]
        ELSE transcribing' = [transcribing EXCEPT
                                !.files = @ \ {tempFilePath(format)},
                                !.awaiting = FALSE,
                                !.outcome = "thrown"]
  /\ UNCHANGED <<sessions, objs, inflight, now, nextSweep, nreq, last, stopped, swept>>

\* Mutant: the catch leaves the rejected format's temp file where it is.
FormatAnswered_KeepsRejected ==
  /\ transcribing.idx # 0
  /\ transcribing.awaiting
  /\ LET format == supportedFormats[transcribing.idx]
         answer == transcribing.audio[format]
     IN IF answer # NULL
        THEN transcribing' = [transcribing EXCEPT
                                !.files = @ \ {tempFilePath(format)},
                                !.awaiting = FALSE,
                                !.outcome = "returned", !.text = answer]
        ELSE IF format = supportedFormats[Len(supportedFormats)]
        THEN transcribing' = [transcribing EXCEPT
                                !.awaiting = FALSE,
                                !.outcome = "thrown"]
        ELSE transcribing' = [transcribing EXCEPT
                                !.awaiting = FALSE,
                                !.idx = @ + 1]
  /\ UNCHANGED <<sessions, objs, inflight, now, nextSweep, nreq, last, stopped, swept>>

\* The service answers: on a text, unlink the temp file and return the text; on
\* a rejection (the catch), unlink the temp file if it exists, throw if this was
\* the last format, else go on with the next.
FormatAnswered ==
  /\ transcribing.idx # 0
  /\ transcribing.awaiting
  /\ LET format == supportedFormats[transcribing.idx]
         answer == transcribing.audio[format]
     IN IF answer # NULL
        THEN transcribing' = [transcribing EXCEPT
                                !.files = @ \ {tempFilePath(format)},
                                !.awaiting = FALSE,
                                !.outcome = "returned", !.text = answer]
        ELSE IF format = supportedFormats[Len(supportedFormats)]
        THEN transcribing' = [transcribing EXCEPT
                                !.files = @ \ {tempFilePath(format)},
                                !.awaiting = FALSE,
                                !.outcome = "thrown"]
        ELSE transcribing' = [transcribing EXCEPT
                                !.files = @ \ {tempFilePath(format)},
                                !.awaiting = FALSE,
                                !.idx = @ + 1]
  /\ UNCHANGED <<sessions, objs, inflight, now, nextSweep, nreq, last, stopped, swept>>

NextTranscribe ==
  \/ TryFormat
  \/ FormatAnswered

TranscribeSpec == InitTranscribe /\ [][NextTranscribe]_vars

\* ------------------------------------------------------------------ claims
\* The step taken is the first turn of a request `op` addressed to id S.
Arrives(op, S) == nreq' = nreq + 1 /\ last'.op = op /\ last'.sid = S

\* The turns of transcript conv pushed by request r.
OwnTurns(conv, r) == SelectSeq(conv, LAMBDA t : t.by = r)

\* A turn pushed by a process request (not the system turn, not a greeting).
IsProcessTurn(t) ==
  t.role = "user" \/ (t.role = "assistant" /\ t.content # initialGreeting)

\* C1: a process request on a session that exists and was never started is
\* answered 400 (SessionNotActive when it carries its audio file), calls no
\* external collaborator, suspends nowhere, and leaves the store and every
\* session object as they were: transcript of length 1, active = false.
C1_ProcessBeforeStartRejected ==
  [][\A S \in SessionIds :
       (Arrives("process", S) /\ Has(S) /\ ~Get(S).active)
       => /\ last'.status = 400
          /\ last'.file => last'.kind = "notactive"
          /\ last'.call = "none"
          /\ inflight' = inflight
          /\ sessions' = sessions
          /\ objs' = objs
          /\ Len(Get(S).conversationHistory) = 1]_vars

C1_Witness ==
  /\ last.op = "process" /\ last.first /\ last.kind = "notactive"
  /\ Has(last.sid)
  /\ ~Get(last.sid).active
  /\ Len(Get(last.sid).conversationHistory) = 1

\* C2 as stated: once a stop on id S has succeeded, every later start, process,
\* history or stop request on S (carrying its required fields) is answered 404.
C2_AfterStopAlwaysNotFound ==
  [][\A S \in SessionIds :
       (/\ stopped[S] # "never"
        /\ \E op \in {"start", "process", "history", "stop"} : Arrives(op, S)
        /\ last'.file)
       => last'.status = 404 /\ last'.kind = "notfound"]_vars

\* C2 amended: once a stop on id S has succeeded, every later start, process,
\* history or stop request on S is answered 404 for as long as no initialize
\* has stored a new session under the same id.
C2_AfterStopNotFoundUntilReissued ==
  [][\A S \in SessionIds :
       (/\ stopped[S] = "stopped"
        /\ \E op \in {"start", "process", "history", "stop"} : Arrives(op, S)
        /\ last'.file)
       => /\ last'.status = 404 /\ last'.kind = "notfound"
          /\ sessions' = sessions /\ objs' = objs /\ inflight' = inflight]_vars

C2_Witness ==
  /\ last.first /\ last.op \in {"start", "process", "history", "stop"}
  /\ last.sid \in SessionIds
  /\ stopped[last.sid] = "stopped"
  /\ last.status = 404

\* C3 as stated: when a process request is answered 200, the transcript of its
\* session is exactly two turns longer than when the request was accepted: its
\* user turn with the transcription, then its assistant turn with the completion.
C3_ProcessGrowsByExactlyTwo ==
  (last.op = "process" /\ ~last.first /\ last.status = 200)
  => /\ Len(last.conv) = last.len0 + 2
     /\ last.conv[last.len0 + 1] = Turn("user", last.text, last.rid)
     /\ last.conv[last.len0 + 2] = Turn("assistant", last.reply, last.rid)

\* C4: a start request on an existing session is accepted: it appends exactly
\* one assistant turn, the fixed greeting, leaves the session in the store and
\* active, and calls speech synthesis; from Initialized the transcript is then
\* exactly [system, assistant greeting].
C4_StartAppendsGreeting ==
  [][\A S \in SessionIds :
       (Arrives("start", S) /\ Has(S))
       => LET before == Get(S).conversationHistory
              after == objs'[sessions'[S]].conversationHistory
          IN /\ sessions' = sessions
             /\ last'.kind = "pending" /\ last'.call = "speech"
             /\ after = Append(before, Turn("assistant", initialGreeting, last'.rid))
             /\ objs'[sessions'[S]].active
             /\ ~Get(S).active =>
                  /\ Len(after) = 2
                  /\ after[1].role = "system"
                  /\ after[2].role = "assistant" /\ after[2].content = initialGreeting]_vars

C4_Witness ==
  /\ last.op = "start" /\ last.first /\ last.kind = "pending"
  /\ Has(last.sid)
  /\ Get(last.sid).active
  /\ Len(Get(last.sid).conversationHistory) = 2

\* C5 as stated: a start request on a session that is already active is not
\* accepted and appends no further greeting turn.
C5_StartOnActiveRejected ==
  [][\A S \in SessionIds :
       (Arrives("start", S) /\ Has(S) /\ Get(S).active)
       => /\ last'.status >= 400
          /\ objs' = objs]_vars

\* C6 as stated: in every session's transcript the turns pushed by process
\* requests stand in the order in which those requests arrived.
C6_TurnsInArrivalOrder ==
  \A S \in SessionIds :
    Has(S) =>
      LET conv == Get(S).conversationHistory
      IN \A i, j \in 1..Len(conv) :
           (i < j /\ IsProcessTurn(conv[i]) /\ IsProcessTurn(conv[j]))
           => conv[i].by <= conv[j].by

\* C7 as stated: while a process request is suspended at an external call, its
\* session stays in the store and no step other than that request's own changes
\* the session.
C7_SuspendedSessionUntouched ==
  [][\A r \in DOMAIN inflight :
       (inflight[r].op = "process" /\ last'.rid # r
          /\ last'.op \in {"start", "process", "stop", "sweep"})
       => /\ sessions'[inflight[r].sid] = inflight[r].obj
          /\ objs'[inflight[r].obj] = objs[inflight[r].obj]]_vars

\* C8 as stated: when a process request is answered 500, the transcript holds
\* no assistant turn of that request.
C8_FailedProcessLeavesNoAssistantTurn ==
  (last.op = "process" /\ ~last.first /\ last.status = 500)
  => \A i \in 1..Len(last.conv) :
       last.conv[i].by = last.rid => last.conv[i].role # "assistant"

\* C8 amended: when a process request is answered 500, the transcript holds of
\* that request's turns nothing if transcribe failed, only its user turn if
\* chat-complete failed, and its user turn followed by its assistant turn if
\* synthesize failed.
C8_FailedProcessLeavesTurnsPushedSoFar ==
  (last.op = "process" /\ ~last.first /\ last.status = 500)
  => LET own == OwnTurns(last.conv, last.rid)
         user == Turn("user", last.transcription, last.rid)
         assistant == Turn("assistant", last.aiResponse, last.rid)
     IN /\ last.stage = "transcribe" => own = << >>
        /\ last.stage = "chat" => own = << user >>
        /\ last.stage = "speech" => own = << user, assistant >>

C8_Witness ==
  /\ last.op = "process" /\ ~last.first /\ last.status = 500
  /\ last.stage = "speech"
  /\ Len(OwnTurns(last.conv, last.rid)) = 2

\* C9: the sweep timer is always armed no more than one interval ahead, and a
\* session in the store is never idle for more than the threshold plus one
\* sweep interval; it reaches that age only at the instant the sweep that
\* removes it is due.
C9_IdleSessionSweptWithinOneInterval ==
  /\ now <= nextSweep /\ nextSweep <= now + SweepInterval
  /\ \A S \in SessionIds :
       Has(S) =>
         /\ now - Get(S).lastActivity <= maxAge + SweepInterval
         /\ now - Get(S).lastActivity = maxAge + SweepInterval => now = nextSweep

C9_Witness == last.op = "sweep" /\ last.deleted # {}

\* C10 as stated: the id a successful initialize returns is the id of no
\* session in the store at that moment.
C10_InitIdNotLive ==
  [][\A S \in SessionIds :
       (Arrives("init", S) /\ last'.status = 200) => sessions[S] = 0]_vars

\* The four operations addressed to a session id.
SessionOps == {"start", "process", "history", "stop"}

\* Sequence p is a prefix of sequence q.
IsPrefix(p, q) == Len(p) <= Len(q) /\ \A i \in 1..Len(p) : q[i] = p[i]

\* The ids with an entry in the map m.
Present(m) == {S \in SessionIds : m[S] # 0}

\* C11: the checks of a request are made in a fixed order. A missing field is
\* answered 400 even when the session addressed is absent; with its fields
\* present, a request on an absent session is answered 404; a process request
\* on a session that is not active is answered 400 without an external call.
\* A 400 or 404 is always given in the request's first turn, with no external
\* call made, no handler suspended and no session or map entry changed.
C11_ChecksInFixedOrder ==
  [][/\ last'.status \in {400, 404} => last'.first /\ nreq' = nreq + 1
     /\ nreq' = nreq + 1 =>
          /\ (last'.op = "init" /\ (last'.gender = NULL \/ last'.osce_id = NULL))
               => last'.status = 400 /\ last'.kind = "missing"
          /\ (last'.op \in SessionOps /\ (last'.sid = NULL \/ ~last'.file))
               => last'.status = 400 /\ last'.kind = "missing"
          /\ (last'.op \in SessionOps /\ last'.sid # NULL /\ last'.file /\ ~Has(last'.sid))
               => last'.status = 404 /\ last'.kind = "notfound"
          /\ (last'.op = "process" /\ last'.file /\ Has(last'.sid)
                /\ ~Get(last'.sid).active)
               => last'.status = 400 /\ last'.kind = "notactive"
          /\ last'.status \in {400, 404}
               => /\ last'.call = "none"
                  /\ sessions' = sessions /\ objs' = objs /\ inflight' = inflight]_vars

\* A process request without its audio, addressed to an id that is not in the
\* store, has been answered 400.
C11_Witness ==
  /\ last.op = "process" /\ last.first /\ ~last.file
  /\ last.sid \in SessionIds /\ ~Has(last.sid)
  /\ last.status = 400

C13_HistoryIsNonSystemTurns ==
  [][\A S \in SessionIds :
       (Arrives("history", S) /\ Has(S))
       => LET conv == Get(S).conversationHistory
              items == last'.items
          IN /\ last'.status = 200
             /\ Len(items) = Len(conv) - 1
             /\ \A i \in 1..Len(items) :
                  /\ items[i] = [role |-> conv[i + 1].role, content |-> conv[i + 1].content]
                  /\ items[i].role # "system"]_vars

C13_Witness ==
  /\ last.op = "history" /\ last.status = 200
  /\ Len(last.items) >= 2
  /\ Len(Get(last.sid).conversationHistory) = Len(last.items) + 1

\* C14: a session object that is active stays active for as long as it exists,
\* and an id with no entry in the store gets one in no step other than an
\* initialize that returns this id: no start, process, history or stop request,
\* no resumed handler, no sweep and no tick.
C14_StateOnlyMovesForward ==
  [][/\ \A a \in Addrs :
          (objs[a] # NoObj /\ objs[a].active /\ objs'[a] # NoObj) => objs'[a].active
     /\ \A S \in SessionIds :
          (sessions[S] # 0 /\ sessions'[S] = sessions[S] /\ Get(S).active)
          => objs'[sessions'[S]].active
     /\ \A S \in SessionIds :
          (sessions[S] = 0 /\ ~(Arrives("init", S) /\ last'.status = 200))
          => sessions'[S] = 0]_vars

\* A handler suspended on a session has resumed and answered after its id was
\* stopped, and the id is still absent.
C14_Witness ==
  /\ last.op \in {"start", "process"} /\ ~last.first /\ last.status # 0
  /\ last.sid \in SessionIds
  /\ stopped[last.sid] = "stopped"
  /\ ~Has(last.sid)

\* C15: every session in the store has a transcript of at least one turn, its
\* first turn has role system and no later turn has.
C15_SystemTurnFirstAndOnly ==
  \A S \in SessionIds :
    Has(S) =>
      LET conv == Get(S).conversationHistory
      IN /\ Len(conv) >= 1
         /\ conv[1].role = "system"
         /\ \A i \in 2..Len(conv) : conv[i].role # "system"

C15_Witness ==
  \E S \in SessionIds :
    /\ Has(S)
    /\ Len(Get(S).conversationHistory) >= 4
    /\ Get(S).conversationHistory[1].role = "system"

\* C16: every step leaves the turns a session object already holds as they are
\* and where they are: the transcript before the step is a prefix of the one
\* after it, for the session under an id and for a session a handler still holds.
C16_TranscriptAppendOnly ==
  [][/\ \A a \in Addrs :
          (objs[a] # NoObj /\ objs'[a] # NoObj)
          => IsPrefix(objs[a].conversationHistory, objs'[a].conversationHistory)
     /\ \A S \in SessionIds :
          (sessions[S] # 0 /\ sessions'[S] = sessions[S])
          => IsPrefix(Get(S).conversationHistory,
                      objs'[sessions'[S]].conversationHistory)]_vars

\* A process request has pushed its assistant turn behind three earlier turns.
C16_Witness ==
  /\ last.op = "process" /\ ~last.first /\ last.stage = "chat" /\ last.kind = "pending"
  /\ Len(last.conv) >= 4
  /\ Has(last.sid)
  /\ Get(last.sid).conversationHistory = last.conv

\* C17 as stated: once the sweeper has deleted id S, every later start, process,
\* history or stop request on S (carrying its required fields) is answered 404.
C17_AfterSweepAlwaysNotFound ==
  [][\A S \in SessionIds :
       (/\ swept[S] # "never"
        /\ \E op \in SessionOps : Arrives(op, S)
        /\ last'.file)
       => last'.status = 404 /\ last'.kind = "notfound"]_vars

\* C17 amended: once the sweeper has deleted id S, every later start, process,
\* history or stop request on S is answered 404 and changes nothing, as after a
\* stop of S, for as long as no initialize has stored a new session under the
\* same id.
C17_AfterSweepNotFoundUntilReissued ==
  [][\A S \in SessionIds :
       (/\ swept[S] = "swept"
        /\ \E op \in SessionOps : Arrives(op, S)
        /\ last'.file)
       => /\ last'.status = 404 /\ last'.kind = "notfound"
          /\ sessions' = sessions /\ objs' = objs /\ inflight' = inflight]_vars

C17_Witness ==
  /\ last.first /\ last.op \in SessionOps
  /\ last.sid \in SessionIds
  /\ swept[last.sid] = "swept"
  /\ last.status = 404

\* C18: a history request changes no session object (lastActivity, active and
\* transcript included), no map entry and no suspended handler; and a sweep
\* removes every session idle beyond the threshold, whatever requests it got.
C18_HistoryIsPureRead ==
  [][/\ (nreq' = nreq + 1 /\ last'.op = "history")
          => sessions' = sessions /\ objs' = objs /\ inflight' = inflight
     /\ last'.op = "sweep"
          => \A S \in SessionIds :
               (Has(S) /\ now - Get(S).lastActivity > maxAge) => sessions'[S] = 0]_vars

\* A history request has been served on a session idle beyond the threshold:
\* the session's lastActivity is still the old one and the next sweep removes it.
C18_Witness ==
  /\ last.op = "history" /\ last.status = 200
  /\ Has(last.sid)
  /\ now - Get(last.sid).lastActivity > maxAge
  /\ now = nextSweep

\* C19: an initialize request with no gender or no case reference is answered
\* 400; with both, and a case reference that is a row of neither table, it is
\* answered 404 unless the lookup threw (500); only a request with both fields
\* and a case in a table is answered 200. Every initialize not answered 200
\* leaves the map, the session objects and the suspended handlers as they were.
C19_FailedInitLeavesStore ==
  [][(nreq' = nreq + 1 /\ last'.op = "init")
     => LET missing == last'.gender = NULL \/ last'.osce_id = NULL
            known == last'.osce_id \in DOMAIN osces \cup DOMAIN virtual_patient_simulations
        IN /\ missing => last'.status = 400
           /\ (~missing /\ ~known) => last'.status = 404 \/ last'.kind = "upstream"
           /\ last'.status \in {200, 400, 404, 500}
           /\ last'.status = 200 => ~missing /\ known
           /\ last'.status # 200
                => sessions' = sessions /\ objs' = objs /\ inflight' = inflight]_vars

\* An initialize for an unknown case has been answered 404 with a session in
\* the store.
C19_Witness ==
  /\ last.op = "init" /\ last.status = 404
  /\ last.gender # NULL /\ last.osce_id = "cx"
  /\ Present(sessions) # {}

\* C20 as stated: an initialize answered 200 with id S adds exactly one session
\* to the store: under S there is a new session with active = false,
\* lastActivity = now, the request's gender and case reference and a transcript
\* of the one system turn; every session that was in the store is still there
\* under its id, unchanged.
C20_InitStoresOneNewSession ==
  [][\A S \in SessionIds :
       (Arrives("init", S) /\ last'.status = 200)
       => LET new == objs'[sessions'[S]]
          IN /\ ~new.active
             /\ new.lastActivity = now
             /\ new.gender = last'.gender /\ new.osce_id = last'.osce_id
             /\ Len(new.conversationHistory) = 1
             /\ new.conversationHistory[1].role = "system"
             /\ Cardinality(Present(sessions')) = Cardinality(Present(sessions)) + 1
             /\ \A T \in SessionIds :
                  sessions[T] # 0
                  => sessions'[T] = sessions[T] /\ objs'[sessions[T]] = Get(T)]_vars

\* C21 as stated: the gender of every session in the store is Male or Female,
\* the two values that have a synthesis voice.
C21_StoredGenderIsMaleOrFemale ==
  \A S \in SessionIds : Has(S) => Get(S).gender \in DOMAIN ELEVENLABS_VOICES

\* C22: a step of a start, process, history or stop request addressed to id A,
\* its first turn or a later one, leaves every other id B as it was: present or
\* absent as before and, if present, the same session object with the same
\* active, lastActivity and transcript.
C22_SessionsIsolated ==
  [][\A A \in SessionIds \cup {NULL} :
       (last'.op \in SessionOps /\ last'.sid = A)
       => \A B \in SessionIds \ {A} :
            /\ sessions'[B] = sessions[B]
            /\ sessions[B] # 0 => objs'[sessions[B]] = Get(B)]_vars

\* A process request on one session has been answered 200 while another
\* session is in the store, never started, its transcript the system turn.
C22_Witness ==
  /\ last.op = "process" /\ ~last.first /\ last.status = 200
  /\ \E B \in SessionIds \ {last.sid} :
       Has(B) /\ ~Get(B).active /\ Len(Get(B).conversationHistory) = 1

\* Transcript conv is [system, greeting, u1, a1, ..., un, an]: the system turn,
\* the greeting, then n pairs of a user turn and an assistant turn, each pair
\* pushed by one request.
Canon(conv, n) ==
  /\ Len(conv) = 2 * n + 2
  /\ conv[1].role = "system"
  /\ conv[2].role = "assistant" /\ conv[2].content = initialGreeting
  /\ \A i \in 1..n :
       /\ conv[2 * i + 1].role = "user"
       /\ conv[2 * i + 2].role = "assistant"
       /\ conv[2 * i + 1].by = conv[2 * i + 2].by

\* The history of a transcript [system, greeting, u1, a1, ..., un, an].
CanonHistory(conv, n) ==
  [j \in 1..(2 * n + 1) |->
     [role |-> IF j % 2 = 1 THEN "assistant" ELSE "user", content |-> conv[j + 1].content]]

\* C23: when the requests on one session do not overlap, a start accepted on a
\* new session leaves the transcript [system, greeting]; a process request
\* accepted on a transcript [system, greeting, u1, a1, ..., u(n-1), a(n-1)] and
\* answered 200 carries its transcription un and its completion an and leaves
\* the transcript [system, greeting, u1, a1, ..., un, an] of length 2n+2; and a
\* history request on such a transcript returns [greeting, u1, a1, ..., un, an]
\* with roles assistant, user, assistant, ... in turn.
C23_SerialRunAlternates ==
  /\ (last.op = "start" /\ last.first /\ last.kind = "pending"
        /\ inflight[last.rid].len0 = 1)
     => Canon(objs[inflight[last.rid].obj].conversationHistory, 0)
  /\ \A n \in 1..MaxRequests :
       (/\ last.op = "process" /\ ~last.first /\ last.status = 200
        /\ last.len0 = 2 * n
        /\ Canon(SubSeq(last.conv, 1, last.len0), n - 1))
       => /\ Canon(last.conv, n)
          /\ last.conv[2 * n + 1] = Turn("user", last.text, last.rid)
          /\ last.conv[2 * n + 2] = Turn("assistant", last.reply, last.rid)
          /\ last.text = last.transcription /\ last.reply = last.aiResponse
  /\ \A n \in 0..MaxRequests :
       (/\ last.op = "history" /\ last.status = 200
        /\ Canon(Get(last.sid).conversationHistory, n))
       => last.items = CanonHistory(Get(last.sid).conversationHistory, n)

\* The second of two process requests has been answered 200 on a transcript
\* that now holds the greeting and two pairs.
C23_Witness ==
  /\ last.op = "process" /\ ~last.first /\ last.status = 200
  /\ last.len0 = 4
  /\ Canon(last.conv, 2)

\* The HTTP statuses of an answer; status 0 marks a step that answers nothing.
Answers == {200, 400, 404, 500}

\* C24: a request is answered once. The step in which it arrives either answers
\* it (200, 400, 404 or 500) or suspends its handler at an external call; a
\* later step of a request is a step of a suspended handler, and either answers
\* (200, or 500 when the call threw) and ends the handler, or suspends it at
\* the next call; no other step starts, ends or answers a handler. And, every
\* external call returning or throwing, each suspended handler ends.
C24_ExactlyOneResponse ==
  /\ [][/\ last'.status \in Answers \cup {0}
        /\ nreq' = nreq + 1 =>
             /\ last'.first /\ last'.rid = nreq'
             /\ last'.rid \notin DOMAIN inflight
             /\ DOMAIN inflight' \ {last'.rid} = DOMAIN inflight
             /\ last'.status \in Answers <=> last'.rid \notin DOMAIN inflight'
        /\ (nreq' = nreq /\ last'.rid # 0) =>
             /\ ~last'.first
             /\ last'.rid \in DOMAIN inflight
             /\ DOMAIN inflight' \cup {last'.rid} = DOMAIN inflight
             /\ last'.status \in {200, 500} <=> last'.rid \notin DOMAIN inflight'
             /\ last'.status \in {0, 200, 500}
        /\ (nreq' = nreq /\ last'.rid = 0) =>
             last'.status = 0 /\ inflight' = inflight
        /\ last'.status = 0 <=> last'.kind \in {"pending", "none"}]_vars
  /\ \A r \in Addrs : (r \in DOMAIN inflight) ~> (r \notin DOMAIN inflight)

\* A handler whose external call threw has answered 500 and ended.
C24_Witness ==
  /\ last.op \in {"start", "process"} /\ ~last.first
  /\ last.status = 500 /\ last.kind = "upstream"
  /\ last.rid \notin DOMAIN inflight

\* C25: transcribeAudio sends the audio as webm, wav, mp3, mp4, m4a in this
\* order, and goes on to a format only after the service rejected every format
\* before it. It throws only when the service rejects the audio as all five,
\* and then it has tried all five; it returns only the text the service gave
\* for the first format it accepts, having tried no format after that one; and
\* it never ends in any other way.
C25_TranscribeTriesFormatsInOrder ==
  transcribing.idx # 0 =>
    LET order == << "webm", "wav", "mp3", "mp4", "m4a" >>
        audio == transcribing.audio
        attempts == transcribing.attempts
        accepted == {i \in 1..5 : audio[order[i]] # NULL}
    IN /\ IsPrefix(attempts, order)
       /\ \A i \in 1..Len(attempts) :
            (i < Len(attempts) \/ (transcribing.outcome = "running" /\ ~transcribing.awaiting))
            => audio[attempts[i]] = NULL
       /\ transcribing.outcome = "thrown" <=>
            (accepted = {} /\ Len(attempts) = 5 /\ ~transcribing.awaiting)
       /\ transcribing.outcome = "returned" =>
            /\ accepted # {}
            /\ \A i \in accepted : Len(attempts) <= i
            /\ Len(attempts) \in accepted
            /\ transcribing.text = audio[order[Len(attempts)]]
       /\ (transcribing.outcome = "running" /\ ~transcribing.awaiting)
            => \A i \in accepted : i > Len(attempts)

\* The call has returned the text of the third format after two rejections,
\* with a later format the service would have accepted too.
C25_Witness ==
  /\ transcribing.idx # 0
  /\ transcribing.outcome = "returned"
  /\ transcribing.attempts = << "webm", "wav", "mp3" >>
  /\ transcribing.audio["m4a"] # NULL
  /\ transcribing.audio["m4a"] # transcribing.text

\* C26: a sweep deletes a session if and only if now - lastActivity is strictly
\* greater than maxAge at the sweep instant; so a session on which a start or a
\* process was accepted within the last maxAge is kept; and every session a
\* sweep keeps is the same object with the same attributes after it.
C26_SweepDeletesOnlyExpired ==
  [][last'.op = "sweep" =>
       \A S \in SessionIds :
         /\ sessions[S] = 0 => sessions'[S] = 0
         /\ sessions[S] # 0 =>
              /\ sessions'[S] = 0 <=> now - Get(S).lastActivity > maxAge
              /\ now - Get(S).lastActivity <= maxAge
                   => sessions'[S] = sessions[S] /\ objs'[sessions[S]] = Get(S)
              /\ last'.deleted = {T \in SessionIds : sessions[T] # 0 /\ sessions'[T] = 0}]_vars

\* A sweep has deleted one session and kept another, active one whose last
\* accepted request is exactly maxAge old.
C26_Witness ==
  /\ last.op = "sweep" /\ last.deleted # {}
  /\ \E S \in SessionIds :
       Has(S) /\ Get(S).active /\ now - Get(S).lastActivity = maxAge

\* C27: the step that accepts a start or a process request sets lastActivity of
\* its session to the current time and issues the request's first external
\* call in that order, changing no other session object; a request answered 400
\* or 404, and every history request, changes no session object.
C27_AcceptedRequestTouches ==
  [][/\ \A S \in SessionIds :
          ((Arrives("start", S) \/ Arrives("process", S)) /\ last'.kind = "pending")
          => /\ Has(S) /\ sessions' = sessions
             /\ objs'[sessions[S]].lastActivity = now
             /\ last'.call = (IF last'.op = "start" THEN "speech" ELSE "transcribe")
             /\ inflight'[last'.rid].obj = sessions[S]
             /\ \A a \in Addrs \ {sessions[S]} : objs'[a] = objs[a]
     /\ (nreq' = nreq + 1 /\ (last'.status \in {400, 404} \/ last'.op = "history"))
          => objs' = objs /\ sessions' = sessions]_vars

\* A process request has been accepted at a time later than its session was
\* started, and the session's lastActivity is that later time.
C27_Witness ==
  /\ last.op = "process" /\ last.first /\ last.kind = "pending"
  /\ Has(last.sid)
  /\ now >= 1
  /\ Get(last.sid).lastActivity = now
  /\ Get(last.sid).conversationHistory[2].by < last.rid
  /\ inflight[last.rid].len0 = 2

\* C28: when getChatCompletion throws, the process request is answered 500 and
\* that step changes no transcript: the user turn the request pushed is still
\* in it, with no assistant turn of the request; and a history request returns
\* every user turn of the transcript it reads.
C28_FailedChatKeepsUserTurn ==
  [][/\ (last'.op = "process" /\ ~last'.first /\ last'.stage = "chat"
           /\ last'.status # 0)
        => LET a == inflight[last'.rid].obj
           IN /\ last'.status = 500 /\ last'.kind = "upstream"
              /\ last'.conv = objs[a].conversationHistory
              /\ objs'[a] # NoObj => objs'[a] = objs[a]
              /\ \E i \in 1..Len(last'.conv) :
                   last'.conv[i] = Turn("user", last'.transcription, last'.rid)
              /\ \A i \in 1..Len(last'.conv) :
                   last'.conv[i].by = last'.rid => last'.conv[i].role = "user"
     /\ \A S \in SessionIds :
          (Arrives("history", S) /\ Has(S))
          => \A i \in 1..Len(Get(S).conversationHistory) :
               Get(S).conversationHistory[i].role = "user"
               => \E j \in 1..Len(last'.items) :
                    last'.items[j] = [role |-> "user",
                                      content |-> Get(S).conversationHistory[i].content]]_vars

\* A history request has returned a transcript that ends with a user turn
\* while no handler is suspended: the request that pushed it has ended
\* without an assistant turn.
C28_Witness ==
  /\ last.op = "history" /\ last.status = 200
  /\ inflight = << >>
  /\ Len(last.items) >= 2
  /\ last.items[Len(last.items)].role = "user"

\* C29: the argument of the getChatCompletion call of a process request is the
\* whole transcript of the request's session object at the call, in order: it
\* starts with the system turn, holds no other system turn, and ends with the
\* user turn this request has just pushed.
C29_ChatGetsFullTranscript ==
  (last.op = "process" /\ last.call = "chat")
  => LET messages == last.messages
     IN /\ last.rid \in DOMAIN inflight
        /\ messages = objs[inflight[last.rid].obj].conversationHistory
        /\ Len(messages) >= 3
        /\ messages[1].role = "system"
        /\ \A i \in 2..Len(messages) : messages[i].role # "system"
        /\ messages[Len(messages)] = Turn("user", last.transcription, last.rid)
        /\ last.transcription \in Transcriptions

\* A second process request on a session calls getChatCompletion with the
\* five turns before its own and its user turn.
C29_Witness ==
  /\ last.op = "process" /\ last.call = "chat"
  /\ Len(last.messages) >= 5
  /\ last.messages[3].by # last.rid

\* The external calls of a process request, in the order of the handler.
CallRank(call) ==
  CASE call = "transcribe" -> 1 [] call = "chat" -> 2 [] call = "speech" -> 3
    [] OTHER -> 4

\* C30: a process request issues its external calls in the order transcribe,
\* chat, speech, each at most once: the accepting step issues transcribe, and a
\* step resumed from one call either issues the next call, with the text the
\* awaited call returned, or answers and issues none; it answers 500 from any
\* call, 200 only from speech, and after its answer issues nothing.
C30_NoRetryCallsInOrder ==
  [][last'.op = "process" =>
       /\ (last'.first /\ last'.kind = "pending") => last'.call = "transcribe"
       /\ (last'.first /\ last'.kind # "pending") => last'.call = "none"
       /\ ~last'.first =>
            LET r == last'.rid
            IN /\ r \in DOMAIN inflight
               /\ last'.stage = inflight[r].pc
               /\ IF last'.status = 0
                  THEN /\ CallRank(last'.call) = CallRank(last'.stage) + 1
                       /\ last'.call \in {"chat", "speech"}
                       /\ inflight'[r].pc = last'.call
                       /\ last'.call = "chat" => last'.transcription \in Transcriptions
                       /\ last'.call = "speech" => last'.aiResponse \in Completions
                  ELSE /\ last'.call = "none"
                       /\ r \notin DOMAIN inflight'
                       /\ last'.status \in {200, 500}
                       /\ last'.status = 200 => last'.stage = "speech"
                       /\ last'.status = 500 => last'.kind = "upstream"]_vars

\* The chat call of a process request has thrown: the request is answered 500
\* from there, and its handler is gone without a speech call.
C30_Witness ==
  /\ last.op = "process" /\ ~last.first /\ last.stage = "chat"
  /\ last.status = 500 /\ last.call = "none"
  /\ last.rid \notin DOMAIN inflight

\* C31: a session object keeps its gender and its osce_id for as long as it
\* exists, and its id: it is stored under one id at most and never under
\* another one later. In a step of a start, process or history request, of the
\* sweeper or of the clock, an id that is in the store before and after holds
\* the same object with the same gender and osce_id.
C31_IdGenderCaseNeverChange ==
  [][/\ \A a \in Addrs :
          (objs[a] # NoObj /\ objs'[a] # NoObj)
          => objs'[a].gender = objs[a].gender /\ objs'[a].osce_id = objs[a].osce_id
     /\ \A S \in SessionIds :
          sessions[S] # 0
          => /\ \A T \in SessionIds \ {S} :
                  sessions[T] # sessions[S] /\ sessions'[T] # sessions[S]
             /\ (sessions'[S] # 0 /\ last'.op \in {"start", "process", "history", "sweep", "tick"})
                  => /\ sessions'[S] = sessions[S]
                     /\ objs'[sessions'[S]].gender = Get(S).gender
                     /\ objs'[sessions'[S]].osce_id = Get(S).osce_id]_vars

\* A session created as Female has been started and has had a process request
\* answered; it is still in the store under its id, as Female.
C31_Witness ==
  /\ last.op = "process" /\ ~last.first /\ last.status = 200
  /\ Has(last.sid)
  /\ Get(last.sid).gender = "Female"
  /\ Get(last.sid).conversationHistory = last.conv

\* The session object the handler of request r holds is no longer the one
\* stored under the request's id: the id was stopped or swept in the meantime
\* (and possibly given to a new session since).
Orphaned(r) == sessions[inflight[r].sid] # inflight[r].obj

\* C32: a step of a process handler whose session has left the store goes as it
\* would have otherwise: with the transcription it pushes its user turn and
\* calls chat, with the completion it pushes its assistant turn and calls
\* speech, with the audio it answers 200 with its two texts. The step changes
\* no map entry, so the id is not put back, and the object it writes to is
\* stored under no id, so no request arriving later reads the turns.
C32_OrphanedProcessCompletes ==
  [][\A r \in DOMAIN inflight :
       (inflight[r].op = "process" /\ last'.rid = r /\ ~last'.first /\ Orphaned(r))
       => LET a == inflight[r].obj
          IN /\ sessions' = sessions
             /\ \A T \in SessionIds : sessions'[T] # a
             /\ \A t \in Transcriptions :
                  ProcessTranscribed(r, t)
                  => /\ last'.kind = "pending" /\ last'.call = "chat"
                     /\ objs'[a].conversationHistory =
                          Append(objs[a].conversationHistory, Turn("user", t, r))
             /\ \A c \in Completions :
                  ProcessCompleted(r, c)
                  => /\ last'.kind = "pending" /\ last'.call = "speech"
                     /\ objs'[a].conversationHistory =
                          Append(objs[a].conversationHistory, Turn("assistant", c, r))
             /\ ProcessSpeechDone(r, TRUE)
                  => /\ last'.status = 200
                     /\ last'.text = inflight[r].transcription
                     /\ last'.reply = inflight[r].aiResponse]_vars

\* A process request accepted on a session has been answered 200 after the
\* sweeper removed the session during its external calls; the id is absent.
C32_Witness ==
  /\ last.op = "process" /\ ~last.first /\ last.status = 200
  /\ swept[last.sid] = "swept"
  /\ ~Has(last.sid)
  /\ last.text \in Transcriptions /\ last.reply \in Completions

\* C33: when generateSpeech throws, the start request is answered 500 and that
\* step changes nothing of the session: the object the handler holds is still
\* active and its transcript still holds the greeting the request pushed. And a
\* process request carrying its audio, on a session that is in the store and
\* active, is accepted whether or not the start that made it active got its
\* audio.
C33_StartCommitsBeforeSynthesis ==
  [][/\ \A r \in DOMAIN inflight :
          (inflight[r].op = "start" /\ StartSpeechDone(r, FALSE))
          => LET a == inflight[r].obj
             IN /\ last'.status = 500 /\ last'.kind = "upstream"
                /\ objs[a].active
                /\ \E i \in 2..Len(objs[a].conversationHistory) :
                     objs[a].conversationHistory[i] = Turn("assistant", initialGreeting, r)
                /\ last'.conv = objs[a].conversationHistory
                /\ objs'[a] # NoObj => objs'[a] = objs[a]
                /\ sessions' = sessions
     /\ \A S \in SessionIds :
          (Arrives("process", S) /\ last'.file /\ Has(S) /\ Get(S).active)
          => /\ last'.kind = "pending" /\ last'.call = "transcribe"
             /\ objs'[sessions[S]].lastActivity = now]_vars

\* The only start on a session has been answered 500; the session is in the
\* store, active, refreshed at the current time, with the greeting as its
\* second turn.
C33_Witness ==
  /\ last.op = "start" /\ ~last.first /\ last.status = 500
  /\ Has(last.sid)
  /\ Get(last.sid).active
  /\ Get(last.sid).lastActivity = now
  /\ Get(last.sid).conversationHistory = last.conv
  /\ Len(last.conv) = 2
  /\ last.conv[2] = Turn("assistant", initialGreeting, last.rid)

\* The number of turns of transcript conv that satisfy P.
Count(conv, P(_)) == Cardinality({i \in 1..Len(conv) : P(conv[i])})

IsUserTurn(t) == t.role = "user"
IsReplyTurn(t) == t.role = "assistant" /\ t.content # initialGreeting

\* C34: in every session object, in the store or held by a handler, the user
\* turns are at least as many as the assistant turns other than greetings, in
\* the transcript and in each of its prefixes; every such assistant turn was
\* pushed by a process request whose user turn stands before it, and a request
\* has pushed one user turn and one such assistant turn at most.
C34_UserTurnsAtLeastReplies ==
  \A a \in Addrs :
    objs[a] # NoObj =>
      LET conv == objs[a].conversationHistory
      IN /\ \A n \in 0..Len(conv) :
              Count(SubSeq(conv, 1, n), IsUserTurn) >= Count(SubSeq(conv, 1, n), IsReplyTurn)
         /\ \A i \in 1..Len(conv) :
              IsReplyTurn(conv[i])
              => \E j \in 1..(i - 1) : IsUserTurn(conv[j]) /\ conv[j].by = conv[i].by
         /\ \A i, j \in 1..Len(conv) :
              (i # j /\ conv[i].by = conv[j].by /\ conv[i].by # 0)
              => conv[i].role # conv[j].role

\* Two process requests overlap on a session in the store: its transcript
\* holds the user turns of both and the assistant turn of one.
C34_Witness ==
  \E S \in SessionIds :
    /\ Has(S)
    /\ Count(Get(S).conversationHistory, IsUserTurn) = 2
    /\ Count(Get(S).conversationHistory, IsReplyTurn) = 1
    /\ Cardinality({r \in DOMAIN inflight : inflight[r].obj = sessions[S]}) = 2

\* What init does when the case description d was found: 200, and the session
\* stored under the returned id opens with the system turn built from d.
InitBuiltFrom(d) ==
  /\ last'.status = 200
  /\ last'.sid \in SessionIds
  /\ sessions'[last'.sid] \in Addrs
  /\ objs'[sessions'[last'.sid]].conversationHistory
       = << Turn("system", getPatientPrompt(d), 0) >>

\* C35: init with gender and case reference present reads osces first and
\* virtual_patient_simulations only when osces has no row: a rejection of the
\* second table's lookup does not matter when osces has the case. It succeeds
\* when either table has the case, and the system turn is built from the
\* description in osces when osces has it (also when the other table has it
\* too), from virtual_patient_simulations otherwise; with the case in neither
\* table it answers 404.
C35_OscesFirstThenSimulations ==
  [][\A g \in AnyGenders, c \in AnyCaseRefs, rej \in Tables \cup {NULL}, id \in SessionIds :
       VoiceInit(g, c, rej, id)
       => IF rej = "osces" THEN last'.status = 500
          ELSE IF c \in DOMAIN osces THEN InitBuiltFrom(osces[c])
          ELSE IF rej = "virtual_patient_simulations" THEN last'.status = 500
          ELSE IF c \in DOMAIN virtual_patient_simulations
               THEN InitBuiltFrom(virtual_patient_simulations[c])
               ELSE last'.status = 404 /\ sessions' = sessions]_vars

\* Two sessions were initialised: one for the case both tables hold, carrying
\* the osces description, and one for the case only
\* virtual_patient_simulations holds.
C35_Witness ==
  \E S, T \in SessionIds :
    /\ Has(S) /\ Has(T)
    /\ Get(S).osce_id = "c1"
    /\ Get(S).conversationHistory[1].content = getPatientPrompt("descA")
    /\ getPatientPrompt("descA") # getPatientPrompt("descB")
    /\ Get(T).osce_id = "c2"
    /\ Get(T).conversationHistory[1].content = getPatientPrompt("descC")
    /\ last.op = "init" /\ last.status = 200

\* C36: during a call of transcribeAudio the only temp file on disk is the one
\* of the format whose answer is awaited: the file of an attempt is gone before
\* the next format is tried, and when the call has returned or thrown no temp
\* file is left, whether the attempts succeeded or failed.
C36_NoTempFileLeft ==
  transcribing.idx # 0 =>
    /\ transcribing.outcome \in {"returned", "thrown"} => transcribing.files = {}
    /\ ~transcribing.awaiting => transcribing.files = {}
    /\ transcribing.awaiting
       => transcribing.files = {tempFilePath(supportedFormats[transcribing.idx])}

\* A call returned on its third format after two rejections: three files
\* were written and none is left.
C36_Witness ==
  /\ transcribing.idx # 0
  /\ transcribing.outcome = "returned"
  /\ Len(transcribing.attempts) = 3
  /\ transcribing.files = {}
====
